---- MODULE Spec2Model ----
(***************************************************************************)
(* Model of src/app.py: the Flask backend of SmartPortfolioManager.        *)
(*                                                                         *)
(* State: the two process-wide dicts `users` and `portfolios`, the wall    *)
(* clock read by jwt.encode / jwt.decode, and, as history, the tokens      *)
(* handed out by login plus the last request and its response.            *)
(* Every route handler is one action that runs the handler to its return.  *)
(***************************************************************************)
EXTENDS Integers, Sequences, FiniteSets, TLC

\* ------------------------------------------------------------------ bounds
MaxTime == 3          \* the clock stops advancing here
TicksPerHour == 2     \* clock resolution: ticks in one hour

\* --------------------------------------------------------------- constants
TokenHours == 1       \* datetime.timedelta(hours=1)
TopN == 3             \* stock_changes[:3]

\* ------------------------------------------------------------ input values
None == "<None>"                         \* Python None (absent JSON key)
Usernames == {"alice", "bob"}
Passwords == {"pw1", "pw2"}
PwInputs == Passwords \cup {None}
SECRET_KEY == "server-secret"            \* app.config['SECRET_KEY']
AttackerKey == "other-secret"            \* any key that is not SECRET_KEY

\* ----------------------------------------------------------------- hashing
\* hashlib.sha256(password.encode()).hexdigest(), tabulated on Passwords
\* (leading hex digits of the real digests).
sha256_collide(p) ==
  "c592df4a"

sha256_hexdigest(p) ==
  CASE p = "pw1" -> "c592df4a"
    [] p = "pw2" -> "93915a0a"
    [] OTHER     -> "e3b0c442"

\* ------------------------------------------------------- str.strip / split
IsSpace(c) == c \in {" ", "\n", "\t", "\r"}

RECURSIVE LStrip(_)
LStrip(s) ==
  IF s # <<>> /\ IsSpace(Head(s)) THEN LStrip(Tail(s)) ELSE s

RECURSIVE RStrip(_)
RStrip(s) ==
  IF s # <<>> /\ IsSpace(s[Len(s)]) THEN RStrip(SubSeq(s, 1, Len(s) - 1)) ELSE s

\* str.strip()
Strip(s) == RStrip(LStrip(s))

\* str.split(d): always one more part than there are delimiters
RECURSIVE Split(_, _)
Split(s, d) ==
  IF \A i \in 1..Len(s) : s[i] # d
  THEN <<s>>
  ELSE LET i == CHOOSE k \in 1..Len(s) : s[k] = d /\ \A j \in 1..(k - 1) : s[j] # d
       IN  <<SubSeq(s, 1, i - 1)>> \o Split(SubSeq(s, i + 1, Len(s)), d)

\* ------------------------------------------------------------------- int()
Digits == {"0", "1", "2", "3", "4", "5", "6", "7", "8", "9"}

DigitVal(c) ==
  CASE c = "0" -> 0 [] c = "1" -> 1 [] c = "2" -> 2 [] c = "3" -> 3
    [] c = "4" -> 4 [] c = "5" -> 5 [] c = "6" -> 6 [] c = "7" -> 7
    [] c = "8" -> 8 [] c = "9" -> 9

RECURSIVE DecVal(_)
DecVal(s) ==
  IF s = <<>> THEN 0 ELSE 10 * DecVal(SubSeq(s, 1, Len(s) - 1)) + DigitVal(s[Len(s)])

\* the digits after an optional sign
Unsigned(s) == IF s # <<>> /\ Head(s) \in {"+", "-"} THEN Tail(s) ELSE s

\* int(s) raises ValueError unless s is an optionally signed run of digits
IntRaises(s) ==
  LET u == Unsigned(Strip(s))
  IN  u = <<>> \/ \E i \in 1..Len(u) : u[i] \notin Digits

IntOf(s) ==
  LET t == Strip(s)
  IN  IF t # <<>> /\ Head(t) = "-" THEN 0 - DecVal(Unsigned(t)) ELSE DecVal(Unsigned(t))

\* ------------------------------------------------- import_portfolio parsing
\* One pass of the `for line in portfolio_lines` loop from position i with
\* portfolio_dict = acc.  ok = FALSE is the `except ValueError` return, with
\* the stripped line that raised.
RECURSIVE ParseLines(_, _, _)
ParseLines(lines, i, acc) ==
  IF i > Len(lines)
  THEN [ok |-> TRUE, portfolio_dict |-> acc, line |-> <<>>]
  ELSE LET line  == Strip(lines[i])
           parts == Split(line, ",")
       IN  IF line = <<>>
           THEN ParseLines(lines, i + 1, acc)
           ELSE IF Len(parts) # 2 \/ IntRaises(parts[2])
                THEN [ok |-> FALSE, portfolio_dict |-> acc, line |-> line]
                ELSE ParseLines(lines, i + 1,
                       Append(acc, [symbol   |-> Strip(parts[1]),
                                    quantity |-> IntOf(parts[2])]))

\* portfolio_data.split('\n') followed by the loop
ParsePortfolio(portfolio_data) == ParseLines(Split(portfolio_data, "\n"), 1, <<>>)

\* ------------------------------------------------------------------ tokens
\* HS256 signature over the claims, symbolic: only the holder of `key` can
\* produce it, and it determines the signed claims.
HS256(key, username, exp) == <<key, username, exp>>

\* jwt.encode({'username': ..., 'exp': ...}, key, algorithm='HS256')
jwt_encode(username, exp, key) ==
  [fmt |-> "jwt", username |-> username, exp |-> exp, sig |-> HS256(key, username, exp)]

\* a string that is not three base64url segments
Garbage == [fmt |-> "garbage", username |-> None, exp |-> 0, sig |-> HS256(AttackerKey, None, 0)]

\* jwt.decode(token, key, algorithms=['HS256']) at clock reading t: the
\* exception class raised ("" when the claims are returned).  Segments are
\* decoded first, then the signature is verified, then `exp` is validated.
\* At t = exp the outcome depends on the installed PyJWT (`<` in 1.x, `<=`
\* in 2.x): `lenient` is that choice.
jwt_decode_noverify(token, key, t, lenient) ==
  CASE token.fmt # "jwt" -> "DecodeError"
    [] OTHER -> ""

jwt_decode(token, key, t, lenient) ==
  CASE token.fmt # "jwt" -> "DecodeError"
    [] token.fmt = "jwt" /\ token.sig # HS256(key, token.username, token.exp)
         -> "InvalidSignatureError"
    [] token.fmt = "jwt" /\ token.sig = HS256(key, token.username, token.exp)
         /\ (token.exp < t \/ (token.exp = t /\ ~lenient))
         -> "ExpiredSignatureError"
    [] OTHER -> ""

\* request.headers.get('Authorization'), by shape:
\*   "missing"     no header (None)        "empty"   header present but ""
\*   "scheme_only" one word, e.g. "Bearer" "bearer"  "<scheme> <token>"
Header(kind, token) == [kind |-> kind, token |-> token]

\* `not auth_header`
HeaderFalsy(h) == h.kind \in {"missing", "empty"}

\* The try block shared by the three authenticated handlers:
\*   token = auth_header.split(" ")[1]; data = jwt.decode(...); data['username']
\* gives the exception class raised ("" when username is bound).
AuthRaises(h, t, lenient) ==
  IF h.kind = "scheme_only" THEN "IndexError"
  ELSE jwt_decode(h.token, SECRET_KEY, t, lenient)

\* ------------------------------------------------------------ request data
\* portfolioData bodies, as character sequences
TextTwo      == <<"A", ",", "1", "0", "\n", "\n", " ", "B", " ", ",", " ", "5", " ">>
                                                     \* "A,10\n\n B , 5 "
TextBadTail  == <<"A", ",", "1", "0", "\n", "B", "A", "D">>             \* "A,10\nBAD"
TextEmpty    == <<>>                                                    \* ""
TextZero     == <<"B", ",", "5", "\n", "A", ",", "0">>                  \* "B,5\nA,0"

Texts == {TextTwo, TextBadTail, TextEmpty, TextZero}

\* What the quote provider answers for one symbol while a request runs:
\* a "Global Quote" with a '10. change percent', a body without
\* "Global Quote", or a failing requests.get
QuoteSymbols == {<<"A">>, <<"B">>}
Quote(c) == [kind |-> "quote", change |-> c]
NoData == [kind |-> "no_data", change |-> 0]
TransportError == [kind |-> "transport_error", change |-> 0]
Providers == {[s \in QuoteSymbols |-> IF s = <<"A">> THEN Quote(2) ELSE b] :
                b \in {Quote(5), NoData, TransportError}}
NoProvider == [s \in QuoteSymbols |-> [kind |-> "no_data", change |-> 0]]

NoToken  == Garbage
NoHeader == Header("missing", NoToken)

\* ------------------------------------------------------------------- state
VARIABLES
  users,        \* dict username -> sha256 hex digest           (line 19)
  portfolios,   \* dict username -> list of {symbol, quantity}  (line 20)
  now,          \* datetime.datetime.utcnow(), in ticks
  issued,       \* history: the token the client holds (at most one), a token
                \* returned by login, with its issue time
  regpw,        \* history: the password of the register call that created a user
  req,          \* the last request handled
  resp          \* its response

vars == <<users, portfolios, now, issued, regpw, req, resp>>

\* dict assignment d[k] = v
DictSet(d, k, v) == [x \in (DOMAIN d) \cup {k} |-> IF x = k THEN v ELSE d[x]]

Request(op, username, password, header, hasData, text, quote) ==
  [op |-> op, username |-> username, password |-> password, header |-> header,
   hasData |-> hasData, text |-> text, quote |-> quote]

\* status: HTTP status; msg: the 'message' of the JSON body; line: the line
\* quoted in it; body: the list under 'portfolio' / 'recommendations';
\* token: the 'token' of a login; identity: the username the handler bound
\* from the token (None if it bound none).
Response(status, msg, line, body, token, identity) ==
  [status |-> status, msg |-> msg, line |-> line, body |-> body, token |-> token,
   identity |-> identity]

\* an exception no handler catches: Flask answers 500
Fault(identity) == Response(500, "Internal Server Error", <<>>, <<>>, NoToken, identity)

\* no request is being answered
NoRequest == Request("none", None, None, NoHeader, FALSE, <<>>, NoProvider)
NoResponse == Response(0, "", <<>>, <<>>, NoToken, None)

Init ==
  /\ users = [x \in {} |-> ""]
  /\ portfolios = [x \in {} |-> <<>>]
  /\ now = 0
  /\ issued = {}
  /\ regpw = [x \in {} |-> ""]
  /\ req = NoRequest
  /\ resp = NoResponse

\* ---------------------------------------------------------------- register
register_nocheck(username, password) ==
  /\ password # None
  /\ req' = Request("register", username, password, NoHeader, FALSE, <<>>, NoProvider)
  /\ users' = DictSet(users, username, sha256_hexdigest(password))
  /\ regpw' = IF username \in DOMAIN regpw THEN regpw ELSE DictSet(regpw, username, password)
  /\ resp' = Response(201, "User registered successfully", <<>>, <<>>, NoToken, None)
  /\ UNCHANGED <<portfolios, now, issued>>

register(username, password) ==
  /\ req' = Request("register", username, password, NoHeader, FALSE, <<>>, NoProvider)
  /\ IF username \in DOMAIN users
     THEN /\ resp' = Response(400, "User already exists", <<>>, <<>>, NoToken, None)
          /\ UNCHANGED <<users, regpw>>
     ELSE IF password = None                 \* None.encode(): AttributeError
     THEN /\ resp' = Fault(None)
          /\ UNCHANGED <<users, regpw>>
     ELSE /\ users' = DictSet(users, username, sha256_hexdigest(password))
          /\ regpw' = DictSet(regpw, username, password)
          /\ resp' = Response(201, "User registered successfully", <<>>, <<>>, NoToken, None)
  /\ UNCHANGED <<portfolios, now, issued>>

\* ------------------------------------------------------------------- login
TokenExp_now(t) == t

\* 'exp': utcnow() + timedelta(hours=1)
TokenExp(t) == t + TokenHours * TicksPerHour

login(username, password) ==
  /\ req' = Request("login", username, password, NoHeader, FALSE, <<>>, NoProvider)
  /\ IF username \notin DOMAIN users       \* users.get(username) is None
     THEN /\ resp' = Response(400, "User does not exist", <<>>, <<>>, NoToken, None)
          /\ UNCHANGED issued
     ELSE IF password = None                 \* None.encode(): AttributeError
     THEN /\ resp' = Fault(None)
          /\ UNCHANGED issued
     ELSE IF users[username] # sha256_hexdigest(password)
     THEN /\ resp' = Response(400, "Incorrect password", <<>>, <<>>, NoToken, None)
          /\ UNCHANGED issued
     ELSE LET token == jwt_encode(username, TokenExp(now), SECRET_KEY)
              entry == [token |-> token, iat |-> now]
          IN  /\ issued' \in {issued, {entry}}   \* the client keeps either token
              /\ resp' = Response(200, "", <<>>, <<>>, token, None)
  /\ UNCHANGED <<users, portfolios, now, regpw>>

\* -------------------------------------------------------- import_portfolio
import_portfolio_rebind(header, hasData, text, lenient) ==
  LET raised   == AuthRaises(header, now, lenient)
      username == header.token.username
      parsed   == ParsePortfolio(text)
  IN
  /\ req' = Request("import_portfolio", None, None, header, hasData, text, NoProvider)
  /\ IF HeaderFalsy(header)
     THEN /\ resp' = Response(401, "Token is missing", <<>>, <<>>, NoToken, None)
          /\ UNCHANGED portfolios
     ELSE IF raised = "ExpiredSignatureError"
     THEN /\ resp' = Response(401, "Token has expired", <<>>, <<>>, NoToken, None)
          /\ UNCHANGED portfolios
     ELSE IF raised \in {"DecodeError", "InvalidSignatureError"}
     THEN /\ resp' = Response(401, "Token is invalid", <<>>, <<>>, NoToken, None)
          /\ UNCHANGED portfolios
     ELSE IF raised # ""
     THEN /\ resp' = Fault(None)
          /\ UNCHANGED portfolios
     ELSE IF ~hasData
     THEN /\ resp' = Response(400, "No portfolio data provided", <<>>, <<>>, NoToken, username)
          /\ UNCHANGED portfolios
     ELSE IF ~parsed.ok
     THEN /\ resp' = Response(400, "Invalid format in line", parsed.line, <<>>, NoToken, username)
          /\ UNCHANGED portfolios
     ELSE /\ portfolios' = [x \in {username} |-> parsed.portfolio_dict]
          /\ resp' = Response(200, "Portfolio imported successfully", <<>>, <<>>, NoToken, username)
  /\ UNCHANGED <<users, now, issued, regpw>>

import_portfolio(header, hasData, text, lenient) ==
  LET raised   == AuthRaises(header, now, lenient)
      username == header.token.username
      parsed   == ParsePortfolio(text)
  IN
  /\ req' = Request("import_portfolio", None, None, header, hasData, text, NoProvider)
  /\ IF HeaderFalsy(header)
     THEN /\ resp' = Response(401, "Token is missing", <<>>, <<>>, NoToken, None)
          /\ UNCHANGED portfolios
     ELSE IF raised = "ExpiredSignatureError"
     THEN /\ resp' = Response(401, "Token has expired", <<>>, <<>>, NoToken, None)
          /\ UNCHANGED portfolios
     ELSE IF raised \in {"DecodeError", "InvalidSignatureError"}   \* InvalidTokenError
     THEN /\ resp' = Response(401, "Token is invalid", <<>>, <<>>, NoToken, None)
          /\ UNCHANGED portfolios
     ELSE IF raised # ""                     \* IndexError is not caught
     THEN /\ resp' = Fault(None)
          /\ UNCHANGED portfolios
     ELSE IF ~hasData
     THEN /\ resp' = Response(400, "No portfolio data provided", <<>>, <<>>, NoToken, username)
          /\ UNCHANGED portfolios
     ELSE IF ~parsed.ok
     THEN /\ resp' = Response(400, "Invalid format in line", parsed.line, <<>>, NoToken, username)
          /\ UNCHANGED portfolios
     ELSE /\ portfolios' = DictSet(portfolios, username, parsed.portfolio_dict)
          /\ resp' = Response(200, "Portfolio imported successfully", <<>>, <<>>, NoToken, username)
  /\ UNCHANGED <<users, now, issued, regpw>>

\* ----------------------------------------------------------- get_portfolio
\* `not portfolios.get(username)`: no entry, or an empty list
PortfolioFalsy(username) ==
  username \notin DOMAIN portfolios \/ portfolios[username] = <<>>

get_portfolio(header, lenient) ==
  LET raised   == AuthRaises(header, now, lenient)
      username == header.token.username
  IN
  /\ req' = Request("get_portfolio", None, None, header, FALSE, <<>>, NoProvider)
  /\ IF HeaderFalsy(header)
     THEN resp' = Response(401, "Token is missing", <<>>, <<>>, NoToken, None)
     ELSE IF raised # ""                     \* bare except
     THEN resp' = Response(401, "Token is invalid", <<>>, <<>>, NoToken, None)
     ELSE IF PortfolioFalsy(username)
     THEN resp' = Response(404, "No portfolio found", <<>>, <<>>, NoToken, username)
     ELSE resp' = Response(200, "", <<>>, portfolios[username], NoToken, username)
  /\ UNCHANGED <<users, portfolios, now, issued, regpw>>

\* ----------------------------------------------------- get_recommendations
get_recommendations_setdefault(header, lenient, provider) ==
  LET raised   == AuthRaises(header, now, lenient)
      username == header.token.username
  IN
  /\ req' = Request("get_recommendations", None, None, header, FALSE, <<>>, provider)
  /\ IF HeaderFalsy(header)
     THEN /\ resp' = Response(401, "Token is missing", <<>>, <<>>, NoToken, None)
          /\ UNCHANGED portfolios
     ELSE IF raised # ""
     THEN /\ resp' = Response(401, "Token is invalid", <<>>, <<>>, NoToken, None)
          /\ UNCHANGED portfolios
     ELSE IF PortfolioFalsy(username)
     THEN /\ resp' = Response(404, "No portfolio found", <<>>, <<>>, NoToken, username)
          /\ portfolios' = DictSet(portfolios, username, <<>>)
     ELSE /\ resp' = Fault(username)
          /\ UNCHANGED portfolios
  /\ UNCHANGED <<users, now, issued, regpw>>

\* `provider` is what the quote provider would answer during the request.
\* The stored portfolio is the list built by import_portfolio, and
\* `portfolio.split('\n')` on a list raises AttributeError before any quote
\* is fetched.
get_recommendations(header, lenient, provider) ==
  LET raised   == AuthRaises(header, now, lenient)
      username == header.token.username
  IN
  /\ req' = Request("get_recommendations", None, None, header, FALSE, <<>>, provider)
  /\ IF HeaderFalsy(header)
     THEN resp' = Response(401, "Token is missing", <<>>, <<>>, NoToken, None)
     ELSE IF raised # ""                     \* bare except
     THEN resp' = Response(401, "Token is invalid", <<>>, <<>>, NoToken, None)
     ELSE IF PortfolioFalsy(username)
     THEN resp' = Response(404, "No portfolio found", <<>>, <<>>, NoToken, username)
     ELSE resp' = Fault(username)
  /\ UNCHANGED <<users, portfolios, now, issued, regpw>>

\* --------------------------------------------------------- get_stock_price
\* get_real_time_price(symbol) when the provider answers as `provider` says:
\* raised = requests.get (or response.json()) raised, which nothing here
\* catches; data = the "Global Quote" dict as a one-entry list, or the empty
\* dict {} as the empty list.
get_real_time_price(symbol, provider) ==
  LET answer == provider[symbol]
  IN  [raised |-> answer.kind = "transport_error",
       data   |-> IF answer.kind = "quote"
                  THEN <<[symbol |-> symbol, change_percent |-> answer.change]>>
                  ELSE <<>>]

\* The request carries the `symbol` query argument in `text` (hasData: the
\* argument is present) and the provider's answers in `quote`.
get_stock_price(hasSymbol, symbol, provider) ==
  LET stock_data == get_real_time_price(symbol, provider)
  IN
  /\ req' = Request("get_stock_price", None, None, NoHeader, hasSymbol, symbol, provider)
  /\ IF ~hasSymbol \/ symbol = <<>>        \* `not symbol`
     THEN resp' = Response(400, "Symbol parameter is missing", <<>>, <<>>, NoToken, None)
     ELSE IF stock_data.raised             \* the exception leaves the handler
     THEN resp' = Fault(None)
     ELSE IF stock_data.data = <<>>        \* `not stock_data`
     THEN resp' = Response(400, "Invalid symbol or data not available", <<>>, <<>>, NoToken, None)
     ELSE resp' = Response(200, "", <<>>, stock_data.data, NoToken, None)
  /\ UNCHANGED <<users, portfolios, now, issued, regpw>>

\* ------------------------------------------------------------------- clock
\* Time passes between requests; req and resp describe the request
\* answered at the current clock reading, if any.
Tick ==
  /\ now < MaxTime
  /\ now' = now + 1
  /\ req' = NoRequest
  /\ resp' = NoResponse
  /\ UNCHANGED <<users, portfolios, issued, regpw>>

\* ---------------------------------------------------------------- requests
IssuedTokens == {e.token : e \in issued}

\* What a client can make of a token without SECRET_KEY: other claims under
\* the old signature, or any claims signed with another key.
Altered(t) ==
  {[t EXCEPT !.username = u] : u \in Usernames \ {t.username}}
    \cup {[t EXCEPT !.exp = t.exp + 1]}
    \cup {jwt_encode(t.username, t.exp, AttackerKey)}

AlteredTokens == UNION {Altered(t) : t \in IssuedTokens}

Headers ==
  {Header(k, NoToken) : k \in {"missing", "scheme_only"}}
    \cup {Header("bearer", t) : t \in IssuedTokens \cup AlteredTokens \cup {Garbage}}

\* the PyJWT versions that differ on header h at the current clock reading
Lenient(h) == IF h.token.exp = now THEN BOOLEAN ELSE {TRUE}

Next ==
  \/ \E u \in Usernames, p \in PwInputs : register(u, p)
  \/ \E u \in Usernames, p \in PwInputs : login(u, p)
  \/ \E h \in Headers, t \in Texts : \E l \in Lenient(h) : import_portfolio(h, TRUE, t, l)
  \/ \E h \in Headers : \E l \in Lenient(h) : import_portfolio(h, FALSE, <<>>, l)
  \/ \E h \in Headers : \E l \in Lenient(h) : get_portfolio(h, l)
  \/ \E h \in Headers, q \in Providers : \E l \in Lenient(h) : get_recommendations(h, l, q)
  \/ \E s \in QuoteSymbols, q \in Providers : get_stock_price(TRUE, s, q)
  \/ get_stock_price(FALSE, <<>>, NoProvider)
  \/ Tick

Spec == Init /\ [][Next]_vars

\* ==================================================================
\* Properties
\* ==================================================================
AuthOps == {"import_portfolio", "get_portfolio", "get_recommendations"}
ReadOps == {"get_portfolio", "get_recommendations"}
Bearer(t) == Header("bearer", t)
Lifetime == TokenHours * TicksPerHour

\* C1: for a registered username, login answers 200 with a token for that
\* username exactly when the password is the one given to the register call
\* that created the user.
C1_LoginIffRegisteredPassword ==
  (req.op = "login" /\ req.username \in DOMAIN regpw) =>
     ((resp.status = 200 /\ resp.token.fmt = "jwt" /\ resp.token.username = req.username)
        <=> req.password = regpw[req.username])

\* a login that succeeds for a user who has already imported a portfolio
C1_Witness ==
  /\ req.op = "login" /\ resp.status = 200
  /\ req.username \in DOMAIN portfolios
  /\ req.password = regpw[req.username]

\* C2: a register call for a username that an earlier register call created
\* answers 400 'User already exists', whatever the password, and stores nothing.
C2_SecondRegisterFails ==
  [][(req'.op = "register" /\ req'.username \in DOMAIN regpw)
       => (resp'.status = 400 /\ resp'.msg = "User already exists" /\ users' = users)]_vars

\* a second register with another password, after the user imported a portfolio
C2_Witness ==
  /\ req.op = "register" /\ resp.status = 400
  /\ req.username \in DOMAIN portfolios
  /\ req.password \in Passwords /\ req.password # regpw[req.username]

\* C3: a token returned by login is accepted, as the identity it was issued
\* to, by the three authenticated handlers at every clock reading before
\* issue time + 1 hour, whatever happened since it was issued.
C3_TokenValidUntilExpiry ==
  \A e \in issued :
    (req.op \in AuthOps /\ req.header = Bearer(e.token) /\ now < e.iat + Lifetime)
      => (resp.identity = e.token.username /\ resp.status # 401)

\* a token used after time has passed since its login, on a stored portfolio
C3_Witness ==
  \E e \in issued :
    /\ req.op = "get_portfolio" /\ req.header = Bearer(e.token)
    /\ now > e.iat /\ now < e.iat + Lifetime
    /\ resp.status = 200 /\ resp.identity = e.token.username

\* C4: each authenticated handler tells an expired token ('Token has expired')
\* from an altered one ('Token is invalid').
C4_FailureCategoryReported ==
  \A e \in issued :
    req.op \in AuthOps =>
      /\ (req.header = Bearer(e.token) /\ now > e.token.exp)
            => (resp.status = 401 /\ resp.msg = "Token has expired")
      /\ (req.header.kind = "bearer" /\ req.header.token \in Altered(e.token))
            => (resp.status = 401 /\ resp.msg = "Token is invalid")

\* the request carries no usable credential: no header, no token part, a
\* token login never returned (malformed or altered), or one past its expiry
BadCredentials ==
  \/ req.header.kind # "bearer"
  \/ req.header.token \notin IssuedTokens
  \/ now > req.header.token.exp

\* C5: get-portfolio and get-recommendations answer 401 with no holdings
\* when the Authorization header is missing or its token is malformed,
\* altered or expired.
C5_Unauthenticated401 ==
  (req.op \in ReadOps /\ BadCredentials) => (resp.status = 401 /\ resp.body = <<>>)

\* an altered token naming a user who has a stored, non-empty portfolio
C5_Witness ==
  /\ req.op = "get_portfolio" /\ req.header.kind = "bearer"
  /\ req.header.token \in AlteredTokens
  /\ req.header.token.username \in DOMAIN portfolios
  /\ portfolios[req.header.token.username] # <<>>
  /\ resp.status = 401

\* ---- the import rule of the delimited-text form
\* A line obeys SYMBOL,QUANTITY when, split once at its first comma, the
\* trimmed second part is a positive integer.
ObeysLineRule(line) ==
  \E i \in 1..Len(line) :
    /\ line[i] = "," /\ \A j \in 1..(i - 1) : line[j] # ","
    /\ LET q == Strip(SubSeq(line, i + 1, Len(line)))
       IN  q # <<>> /\ (\A k \in 1..Len(q) : q[k] \in Digits) /\ DecVal(q) >= 1

HasMalformedLine(text) ==
  LET lines == Split(text, "\n")
  IN  \E i \in 1..Len(lines) : Strip(lines[i]) # <<>> /\ ~ObeysLineRule(lines[i])

\* C6: an authenticated import whose text has a non-blank line breaking the
\* SYMBOL,QUANTITY rule answers 400 and leaves every stored portfolio as it was.
C6_ImportAllOrNothing ==
  [][(req'.op = "import_portfolio" /\ resp'.identity # None /\ req'.hasData
        /\ HasMalformedLine(req'.text))
       => (resp'.status = 400 /\ portfolios' = portfolios)]_vars

\* ---- the holdings a valid text encodes
Holding(symbol, quantity) == [symbol |-> symbol, quantity |-> quantity]
ValidTexts == {TextTwo, TextEmpty}
HoldingsOf(text) ==
  IF text = TextTwo THEN <<Holding(<<"A">>, 10), Holding(<<"B">>, 5)>> ELSE <<>>

\* C7: a successful import of a valid text stores exactly the holdings it
\* encodes, in order; a get-portfolio by the same identity right after it
\* returns exactly those holdings; importing the same text again leaves the
\* stored portfolios unchanged.
C7_ImportRoundTrip ==
  [][/\ (req'.op = "import_portfolio" /\ resp'.status = 200 /\ req'.text \in ValidTexts)
        => portfolios'[resp'.identity] = HoldingsOf(req'.text)
     /\ (req.op = "import_portfolio" /\ resp.status = 200 /\ req.text \in ValidTexts
           /\ req'.op = "get_portfolio" /\ resp'.identity = resp.identity)
        => (resp'.status = 200 /\ resp'.body = HoldingsOf(req.text))
     /\ (req.op = "import_portfolio" /\ resp.status = 200 /\ req.text \in ValidTexts
           /\ req'.op = "import_portfolio" /\ resp'.identity = resp.identity
           /\ req'.hasData /\ req'.text = req.text)
        => portfolios' = portfolios]_vars

\* C8: with a valid token for u, get-portfolio answers 404 exactly when u has
\* never imported (portfolios has no entry for u: entries are never removed);
\* otherwise it answers 200 with the stored holdings, an empty list included.
C8_NotFoundIffNeverImported ==
  (req.op = "get_portfolio" /\ resp.identity # None) =>
     /\ (resp.status = 404 <=> resp.identity \notin DOMAIN portfolios)
     /\ (resp.identity \in DOMAIN portfolios
           => (resp.status = 200 /\ resp.body = portfolios[resp.identity]))

\* ---- the ranking of section 4.6
Quoted(portfolio, provider) ==
  SelectSeq(portfolio, LAMBDA h : h.symbol \in DOMAIN provider
                                   /\ provider[h.symbol].kind = "quote")

Changes(portfolio, provider) ==
  [i \in 1..Len(Quoted(portfolio, provider)) |->
     [symbol |-> Quoted(portfolio, provider)[i].symbol,
      change_percent |-> provider[Quoted(portfolio, provider)[i].symbol].change]]

\* x goes after every entry whose change_percent is not smaller
RECURSIVE InsertDesc(_, _)
InsertDesc(sorted, x) ==
  IF sorted = <<>> \/ Head(sorted).change_percent < x.change_percent
  THEN <<x>> \o sorted
  ELSE <<Head(sorted)>> \o InsertDesc(Tail(sorted), x)

RECURSIVE StableSortDesc(_)
StableSortDesc(seq) ==
  IF seq = <<>> THEN <<>>
  ELSE InsertDesc(StableSortDesc(SubSeq(seq, 1, Len(seq) - 1)), seq[Len(seq)])

FirstN(seq, n) == SubSeq(seq, 1, IF Len(seq) < n THEN Len(seq) ELSE n)

Ranked(portfolio, provider) == FirstN(StableSortDesc(Changes(portfolio, provider)), TopN)

\* C9: for an identity with an imported portfolio, get-recommendations with
\* a valid token answers 200 with the quoted holdings ordered by
\* change_percent descending, ties in portfolio order, cut to the first 3.
\* (Stated for the imported portfolios that have holdings; for the empty one
\* see C8.)
C9_RecommendationsRanked ==
  (req.op = "get_recommendations" /\ resp.identity # None
     /\ resp.identity \in DOMAIN portfolios /\ portfolios[resp.identity] # <<>>)
    => (resp.status = 200 /\ resp.body = Ranked(portfolios[resp.identity], req.quote))

\* C10: when the quote fetch of some holding fails, get-recommendations still
\* answers 200, leaves that holding out and ranks the others.
C10_FailedQuoteSkipped ==
  LET portfolio == portfolios[resp.identity]
      failed(h) == req.quote[h.symbol].kind \in {"no_data", "transport_error"}
  IN  (req.op = "get_recommendations" /\ resp.identity # None
         /\ resp.identity \in DOMAIN portfolios
         /\ \E i \in 1..Len(portfolio) : failed(portfolio[i]))
        => /\ resp.status = 200
           /\ \A i \in 1..Len(portfolio) :
                failed(portfolio[i]) <=>
                  ~\E j \in 1..Len(resp.body) : resp.body[j].symbol = portfolio[i].symbol

\* C11: every holding of every stored portfolio has quantity >= 1 and a
\* non-empty symbol (an import with a zero or negative quantity or an empty
\* symbol is rejected and stores nothing).
C11_HoldingsValid ==
  \A u \in DOMAIN portfolios :
    \A i \in 1..Len(portfolios[u]) :
      portfolios[u][i].quantity >= 1 /\ portfolios[u][i].symbol # <<>>

\* C12: a registered username stays in the credential store with the hash
\* stored at its registration: no step removes or changes an entry of users.
C12_CredentialsImmutable ==
  [][\A u \in DOMAIN users : u \in DOMAIN users' /\ users'[u] = users[u]]_vars

\* later on, after a login with another password was refused, the entry is
\* still the hash of the registered password
C12_Witness ==
  \E u \in DOMAIN users :
    /\ now > 0
    /\ req.op = "login" /\ req.username = u /\ req.password \in Passwords
    /\ resp.status = 400
    /\ users[u] = sha256_hexdigest(regpw[u])

\* C13: a quote fetch ends in one of three values: a quote (get-stock-price
\* answers 200 with it), NoData (a structured 400) or Unavailable on a
\* transport failure (a structured error, never an unhandled fault).
C13_QuoteFailuresStructured ==
  (req.op = "get_stock_price" /\ req.hasData /\ req.text \in QuoteSymbols) =>
     LET answer == req.quote[req.text]
     IN  /\ answer.kind = "quote"
              => (resp.status = 200
                    /\ resp.body = <<[symbol |-> req.text, change_percent |-> answer.change]>>)
         /\ answer.kind = "no_data"
              => (resp.status = 400 /\ resp.msg = "Invalid symbol or data not available")
         /\ answer.kind = "transport_error"
              => (resp.status \in {400, 502, 503, 504} /\ resp.msg # "Internal Server Error")

\* C14: get-recommendations changes neither the credential store nor any
\* stored portfolio, whatever it answers.
C14_RecommendationsPureRead ==
  [][req'.op = "get_recommendations" => (users' = users /\ portfolios' = portfolios)]_vars

\* a get-recommendations that ended in a fault on a stored portfolio
C14_Witness ==
  /\ req.op = "get_recommendations" /\ resp.status = 500
  /\ resp.identity \in DOMAIN portfolios
  /\ portfolios[resp.identity] # <<>>

\* C17: an import-portfolio request with a token issued to u leaves the
\* credential store and the portfolio of every identity other than u as they
\* were, and a stored portfolio changes only in a successful import.
C17_ImportFrame ==
  [][LET owner == IF req'.header.kind = "bearer" /\ req'.header.token \in IssuedTokens
                  THEN req'.header.token.username ELSE None
     IN  /\ req'.op = "import_portfolio" =>
              /\ users' = users
              /\ \A v \in Usernames \ {owner} :
                   /\ v \in DOMAIN portfolios' <=> v \in DOMAIN portfolios
                   /\ v \in DOMAIN portfolios => portfolios'[v] = portfolios[v]
         /\ portfolios' # portfolios =>
              (req'.op = "import_portfolio" /\ resp'.status = 200)]_vars

\* a successful import by one identity while another has holdings stored
C17_Witness ==
  /\ req.op = "import_portfolio" /\ resp.status = 200
  /\ \E v \in DOMAIN portfolios : v # resp.identity /\ portfolios[v] # <<>>

\* C18: an import-portfolio request whose Authorization header is missing or
\* has no token part, or whose token is altered or expired, answers 401 and
\* leaves every stored portfolio unchanged, whatever its body.
C18_ImportUnauthenticated401 ==
  [][(req'.op = "import_portfolio" /\ BadCredentials')
       => (resp'.status = 401 /\ portfolios' = portfolios)]_vars

\* ==================================================================
\* Interleaved requests
\* ==================================================================
\* The server handles each request on its own thread, so handlers interleave
\* between their reads and writes of `users` and `portfolios`.  In SpecConc,
\* req[t] is the request thread t is handling together with its position
\* and local variables, and resp[t] is the response it returned.  Requests
\* carry a token that login returns at this clock reading; the clock stands
\* still.
Threads == {"t1", "t2"}

\* pc: "idle", or the line the thread runs next, or "done";
\* lines, i, acc: portfolio_lines, the loop position and portfolio_dict;
\* old: history, what portfolios held for the user when the import began
\* (<<>> if nothing, else the list in a one-element sequence).
Work(op, pc, username, password, text, lines, i, acc, old) ==
  [op |-> op, pc |-> pc, username |-> username, password |-> password, text |-> text,
   lines |-> lines, i |-> i, acc |-> acc, old |-> old]

Idle == Work("none", "idle", None, None, <<>>, <<>>, 0, <<>>, <<>>)

InitConc ==
  /\ users = [x \in {} |-> ""]
  /\ portfolios = [x \in {} |-> <<>>]
  /\ now = 0
  /\ issued = {}
  /\ regpw = [x \in {} |-> ""]
  /\ req = [t \in Threads |-> Idle]
  /\ resp = [t \in Threads |-> NoResponse]

\* the headers of the users who logged in at this clock reading
LoggedIn == {Bearer(jwt_encode(u, TokenExp(now), SECRET_KEY)) : u \in DOMAIN users}

Stored(u) == IF u \in DOMAIN portfolios THEN <<portfolios[u]>> ELSE <<>>

\* ---- register, lines 61-63: the request is read
reg_begin(t, username, password) ==
  /\ req[t].pc = "idle"
  /\ req' = [req EXCEPT ![t] = Work("register", "check", username, password,
                                    <<>>, <<>>, 0, <<>>, <<>>)]
  /\ resp' = [resp EXCEPT ![t] = NoResponse]
  /\ UNCHANGED <<users, portfolios, now, issued, regpw>>

\* ---- register, lines 65-66: the membership test
reg_check(t) ==
  /\ req[t].op = "register" /\ req[t].pc = "check"
  /\ IF req[t].username \in DOMAIN users
     THEN /\ req' = [req EXCEPT ![t].pc = "done"]
          /\ resp' = [resp EXCEPT ![t] =
                        Response(400, "User already exists", <<>>, <<>>, NoToken, None)]
     ELSE /\ req' = [req EXCEPT ![t].pc = "store"]
          /\ UNCHANGED resp
  /\ UNCHANGED <<users, portfolios, now, issued, regpw>>

\* ---- register, lines 69-72: hash, store, answer
reg_store(t) ==
  /\ req[t].op = "register" /\ req[t].pc = "store"
  /\ users' = DictSet(users, req[t].username, sha256_hexdigest(req[t].password))
  /\ regpw' = DictSet(regpw, req[t].username, req[t].password)
  /\ req' = [req EXCEPT ![t].pc = "done"]
  /\ resp' = [resp EXCEPT ![t] =
                Response(201, "User registered successfully", <<>>, <<>>, NoToken, None)]
  /\ UNCHANGED <<portfolios, now, issued>>

\* ---- import_portfolio, lines 99-120: the token is verified, the text is
\* split and portfolio_dict starts empty.  One import is in flight at a time.
imp_begin(t, header, text) ==
  /\ req[t].pc = "idle"
  /\ \A o \in Threads : req[o].op # "import_portfolio"
  /\ ~HeaderFalsy(header) /\ AuthRaises(header, now, TRUE) = ""
  /\ req' = [req EXCEPT ![t] = Work("import_portfolio", "loop", header.token.username, None,
                                    text, Split(text, "\n"), 1, <<>>,
                                    Stored(header.token.username))]
  /\ resp' = [resp EXCEPT ![t] = NoResponse]
  /\ UNCHANGED <<users, portfolios, now, issued, regpw>>

\* a loop iteration that also makes the list built so far the stored one,
\* as if portfolio_dict had been stored before the loop
imp_line_publish(t) ==
  LET w    == req[t]
      step == ParseLines(<<w.lines[w.i]>>, 1, w.acc)
  IN
  /\ w.op = "import_portfolio" /\ w.pc = "loop" /\ w.i <= Len(w.lines)
  /\ IF step.ok
     THEN /\ req' = [req EXCEPT ![t].acc = step.portfolio_dict, ![t].i = w.i + 1]
          /\ portfolios' = DictSet(portfolios, w.username, step.portfolio_dict)
          /\ UNCHANGED resp
     ELSE /\ req' = [req EXCEPT ![t].pc = "done"]
          /\ resp' = [resp EXCEPT ![t] =
                        Response(400, "Invalid format in line", step.line, <<>>, NoToken,
                                 w.username)]
          /\ UNCHANGED portfolios
  /\ UNCHANGED <<users, now, issued, regpw>>

\* ---- import_portfolio, lines 122-129: one iteration of the loop
imp_line(t) ==
  LET w    == req[t]
      step == ParseLines(<<w.lines[w.i]>>, 1, w.acc)
  IN
  /\ w.op = "import_portfolio" /\ w.pc = "loop" /\ w.i <= Len(w.lines)
  /\ IF step.ok
     THEN /\ req' = [req EXCEPT ![t].acc = step.portfolio_dict, ![t].i = w.i + 1]
          /\ UNCHANGED resp
     ELSE /\ req' = [req EXCEPT ![t].pc = "done"]
          /\ resp' = [resp EXCEPT ![t] =
                        Response(400, "Invalid format in line", step.line, <<>>, NoToken,
                                 w.username)]
  /\ UNCHANGED <<users, portfolios, now, issued, regpw>>

\* ---- import_portfolio, lines 132-134: the loop is over; store and answer
imp_store(t) ==
  LET w == req[t]
  IN
  /\ w.op = "import_portfolio" /\ w.pc = "loop" /\ w.i > Len(w.lines)
  /\ portfolios' = DictSet(portfolios, w.username, w.acc)
  /\ req' = [req EXCEPT ![t].pc = "done"]
  /\ resp' = [resp EXCEPT ![t] =
                Response(200, "Portfolio imported successfully", <<>>, <<>>, NoToken,
                         w.username)]
  /\ UNCHANGED <<users, now, issued, regpw>>

\* ---- get_portfolio, lines 150-165: one read of portfolios (line 161)
get_read(t, header) ==
  LET username == header.token.username
  IN
  /\ req[t].pc = "idle"
  /\ ~HeaderFalsy(header) /\ AuthRaises(header, now, TRUE) = ""
  /\ req' = [req EXCEPT ![t] = Work("get_portfolio", "done", username, None,
                                    <<>>, <<>>, 0, <<>>, <<>>)]
  /\ resp' = [resp EXCEPT ![t] =
                IF PortfolioFalsy(username)
                THEN Response(404, "No portfolio found", <<>>, <<>>, NoToken, username)
                ELSE Response(200, "", <<>>, portfolios[username], NoToken, username)]
  /\ UNCHANGED <<users, portfolios, now, issued, regpw>>

\* ---- the response is sent; the thread takes the next request
finish(t) ==
  /\ req[t].pc = "done"
  /\ req' = [req EXCEPT ![t] = Idle]
  /\ resp' = [resp EXCEPT ![t] = NoResponse]
  /\ UNCHANGED <<users, portfolios, now, issued, regpw>>

ConcTexts == {TextTwo, TextBadTail, TextZero}

NextConc ==
  \/ \E t \in Threads, u \in Usernames, p \in Passwords : reg_begin(t, u, p)
  \/ \E t \in Threads : reg_check(t)
  \/ \E t \in Threads : reg_store(t)
  \/ \E t \in Threads, h \in LoggedIn, x \in ConcTexts : imp_begin(t, h, x)
  \/ \E t \in Threads : imp_line(t)
  \/ \E t \in Threads : imp_store(t)
  \/ \E t \in Threads, h \in LoggedIn : get_read(t, h)
  \/ \E t \in Threads : finish(t)

SpecConc == InitConc /\ [][NextConc]_vars

\* what get_portfolio answers when portfolios holds `stored` for the user
View(stored, username) ==
  IF stored = <<>> \/ stored[1] = <<>>
  THEN Response(404, "No portfolio found", <<>>, <<>>, NoToken, username)
  ELSE Response(200, "", <<>>, stored[1], NoToken, username)

\* the import for `username` that is between its first and last step
InFlight(t, username) ==
  /\ req[t].op = "import_portfolio" /\ req[t].pc = "loop"
  /\ req[t].username = username

\* the answers of get_portfolio that show a complete list: the one stored
\* before the import began or the one the import stores if it succeeds
CompleteViews(w) ==
  LET parsed == ParsePortfolio(w.text)
  IN  {View(w.old, w.username)}
        \cup (IF parsed.ok THEN {View(<<parsed.portfolio_dict>>, w.username)} ELSE {})

\* C15: a get-portfolio request that reads while an import for the same
\* user is in flight answers with the complete list stored before the import
\* or with the complete new list, never with a partly built one.
C15_ReaderSeesCompleteList ==
  [][\A g \in Threads, m \in Threads :
       (/\ req[g].pc = "idle" /\ req'[g].op = "get_portfolio"
        /\ InFlight(m, req'[g].username))
       => resp'[g] \in CompleteViews(req[m])]_vars

\* a get-portfolio request has answered while the import of a two-line text
\* for the same user had parsed its first line, and the user had a list before
C15_Witness ==
  \E g \in Threads, m \in Threads :
    /\ req[g].op = "get_portfolio" /\ req[g].pc = "done"
    /\ InFlight(m, req[g].username)
    /\ req[m].acc # <<>> /\ req[m].i <= Len(req[m].lines)
    /\ req[m].old # <<>>
    /\ resp[g].status = 200

\* C16: of two interleaved register requests for one username with
\* different passwords at most one answers 201, and the stored hash is the
\* hash of the password of the one that did.
C16_OneRegisterWins ==
  \A a \in Threads, b \in Threads :
    (/\ a # b
     /\ req[a].op = "register" /\ req[a].pc = "done"
     /\ req[b].op = "register" /\ req[b].pc = "done"
     /\ req[a].username = req[b].username
     /\ req[a].password # req[b].password)
    => /\ ~(resp[a].status = 201 /\ resp[b].status = 201)
       /\ resp[a].status = 201 => users[req[a].username] = sha256_hexdigest(req[a].password)

====
